---- MODULE Spec2Model ----
(***************************************************************************)
(* Model of openvr_math.h: the quaternion, vector, matrix and projection   *)
(* arithmetic of the ALVR server.                                          *)
(*                                                                         *)
(* Numbers.  A float or double is modelled by the exact value it holds: a  *)
(* pair <<n, d>> in lowest terms with d > 0 stands for n/d, and the IEEE   *)
(* specials are <<1, 0>> (+inf), <<-1, 0>> (-inf) and <<0, 0>> (NaN).      *)
(* Arithmetic is the exact arithmetic of these values, so the model tells  *)
(* what the code computes wherever the machine operations do not round     *)
(* (small integers, dyadic fractions) and what it computes up to rounding  *)
(* elsewhere; division by zero and 0 * inf behave as IEEE 754 says.        *)
(***************************************************************************)
EXTENDS Integers, Sequences, FiniteSets, TLC

VARIABLES pc, call, args, ret, pmProj, frustum

vars == <<pc, call, args, ret, pmProj, frustum>>

-----------------------------------------------------------------------------
(* Scalar arithmetic                                                       *)

Abs(n) == IF n < 0 THEN -n ELSE n

Sgn(n) == IF n > 0 THEN 1 ELSE IF n < 0 THEN -1 ELSE 0

RECURSIVE GCD(_, _)
GCD(a, b) == IF b = 0 THEN a ELSE GCD(b, a % b)

\* The value n/d in lowest terms; d = 0 yields an infinity or NaN.
Norm(n, d) ==
    IF d = 0 THEN <<Sgn(n), 0>>
    ELSE IF d = 1 THEN <<n, 1>>
    ELSE LET g == GCD(Abs(n), Abs(d))
             s == IF d < 0 THEN -1 ELSE 1
         IN  <<(s * n) \div g, (s * d) \div g>>

R(n) == <<n, 1>>

NaN == <<0, 0>>
PosInf == <<1, 0>>
NegInf == <<-1, 0>>

IsNaN(x) == x = NaN
IsFinite(x) == x[2] # 0

\* x + y
FAdd(x, y) ==
    IF x[2] = 0 /\ y[2] = 0
    THEN (IF x = y THEN x ELSE NaN)
    ELSE IF x[2] = 0 THEN x
    ELSE IF y[2] = 0 THEN y
    ELSE IF x[2] = y[2] THEN Norm(x[1] + y[1], x[2])
    ELSE LET g == GCD(x[2], y[2])
         IN  Norm(x[1] * (y[2] \div g) + y[1] * (x[2] \div g), x[2] * (y[2] \div g))

\* -x
FNeg(x) == <<-x[1], x[2]>>

\* x - y
FSub(x, y) == FAdd(x, FNeg(y))

\* x * y  (0 * inf = NaN, as <<0, 0>>)
FMul(x, y) ==
    IF x[2] = 1 /\ y[2] = 1 THEN <<x[1] * y[1], 1>>
    ELSE IF x[2] = 0 \/ y[2] = 0 THEN <<Sgn(x[1]) * Sgn(y[1]), 0>>
    ELSE LET g == GCD(Abs(x[1]), y[2])
             h == GCD(Abs(y[1]), x[2])
         IN  <<(x[1] \div g) * (y[1] \div h), (x[2] \div h) * (y[2] \div g)>>

\* x / y  (1/0 = inf, 0/0 = NaN, 1/inf = 0; a zero divisor is +0, as the
\* difference of two equal numbers is)
FDiv(x, y) ==
    IF IsNaN(x) \/ IsNaN(y) THEN NaN
    ELSE IF x[2] = 0 /\ y[2] = 0 THEN NaN
    ELSE IF y[1] = 0 THEN <<Sgn(x[1]), 0>>
    ELSE Norm(x[1] * y[2] * Sgn(y[1]), x[2] * Abs(y[1]))

\* x < y and x > y; false when either is NaN
FLess(x, y) ==
    /\ ~IsNaN(x)
    /\ ~IsNaN(y)
    /\ IF x[2] = 0 /\ y[2] = 0 THEN x[1] < y[1]
       ELSE IF x[2] = 0 THEN x[1] < 0
       ELSE IF y[2] = 0 THEN y[1] > 0
       ELSE x[1] * y[2] < y[1] * x[2]

FGreater(x, y) == FLess(y, x)

\* x == y; false when either is NaN
FEq(x, y) == ~IsNaN(x) /\ ~IsNaN(y) /\ x = y

-----------------------------------------------------------------------------
(* Quaternion algebra.  A quaternion is a record [w, x, y, z]; a 3-vector  *)
(* is a function on 0..2, as HmdVector3d_t::v.                             *)

Quat(w, x, y, z) == [w |-> w, x |-> x, y |-> y, z |-> z]

Vec3(a, b, c) == [i \in 0..2 |-> IF i = 0 THEN a ELSE IF i = 1 THEN b ELSE c]

\* operator* with the last two terms of z exchanged
operatorMulSwappedZ(lhs, rhs) ==
    Quat(FSub(FSub(FSub(FMul(lhs.w, rhs.w), FMul(lhs.x, rhs.x)), FMul(lhs.y, rhs.y)), FMul(lhs.z, rhs.z)),
         FSub(FAdd(FAdd(FMul(lhs.w, rhs.x), FMul(lhs.x, rhs.w)), FMul(lhs.y, rhs.z)), FMul(lhs.z, rhs.y)),
         FSub(FAdd(FAdd(FMul(lhs.w, rhs.y), FMul(lhs.y, rhs.w)), FMul(lhs.z, rhs.x)), FMul(lhs.x, rhs.z)),
         FSub(FAdd(FAdd(FMul(lhs.w, rhs.z), FMul(lhs.z, rhs.w)), FMul(lhs.y, rhs.x)), FMul(lhs.x, rhs.y)))

\* operator*(HmdQuaternion_t, HmdQuaternion_t)
operatorMul(lhs, rhs) ==
    Quat(FSub(FSub(FSub(FMul(lhs.w, rhs.w), FMul(lhs.x, rhs.x)), FMul(lhs.y, rhs.y)), FMul(lhs.z, rhs.z)),
         FSub(FAdd(FAdd(FMul(lhs.w, rhs.x), FMul(lhs.x, rhs.w)), FMul(lhs.y, rhs.z)), FMul(lhs.z, rhs.y)),
         FSub(FAdd(FAdd(FMul(lhs.w, rhs.y), FMul(lhs.y, rhs.w)), FMul(lhs.z, rhs.x)), FMul(lhs.x, rhs.z)),
         FSub(FAdd(FAdd(FMul(lhs.w, rhs.z), FMul(lhs.z, rhs.w)), FMul(lhs.x, rhs.y)), FMul(lhs.y, rhs.x)))

\* a conjugate that leaves z as it is
quaternionConjugateKeepsZ(quat) ==
    Quat(quat.w, FNeg(quat.x), FNeg(quat.y), quat.z)

quaternionConjugate(quat) ==
    Quat(quat.w, FNeg(quat.x), FNeg(quat.y), FNeg(quat.z))

\* a rotation whose two branches are exchanged
quaternionRotateVectorExchanged(quat, vector, reverse) ==
    LET pin == Quat(R(0), vector[0], vector[1], vector[2])
        pout == IF reverse
                THEN operatorMul(operatorMul(quat, pin), quaternionConjugate(quat))
                ELSE operatorMul(operatorMul(quaternionConjugate(quat), pin), quat)
    IN  Vec3(pout.x, pout.y, pout.z)

\* quaternionRotateVector(quat, vector, reverse)
quaternionRotateVector(quat, vector, reverse) ==
    LET pin == Quat(R(0), vector[0], vector[1], vector[2])
        pout == IF reverse
                THEN operatorMul(operatorMul(quaternionConjugate(quat), pin), quat)
                ELSE operatorMul(operatorMul(quat, pin), quaternionConjugate(quat))
    IN  Vec3(pout.x, pout.y, pout.z)

-----------------------------------------------------------------------------
(* Construction from angles.  An angle rot is named by its index in        *)
(* HalfAngles, whose entry is <<cos(rot/2), sin(rot/2)>>: the angles are   *)
(* those whose half-angle cosine and sine are rational, so that std::cos   *)
(* and std::sin have exact values in the model.                            *)

HalfAngles ==
    << <<R(1), R(0)>>,            \* rot = 0
       <<R(0), R(1)>>,            \* rot = pi
       <<<<3, 5>>, <<4, 5>>>>,    \* rot = 2 atan(4/3)
       <<<<4, 5>>, <<-3, 5>>>>,   \* rot = -2 atan(3/4)
       <<<<-5, 13>>, <<12, 13>>>>,
       <<<<12, 13>>, <<5, 13>>>>,
       <<R(0), R(-1)>>,           \* rot = -pi
       <<<<-3, 5>>, <<-4, 5>>>> >>

NumAngles == 5

Angles == 1..NumAngles

\* std::cos(ha) and std::sin(ha) for ha = rot / 2
CosHalf(rot) == HalfAngles[rot][1]
SinHalf(rot) == HalfAngles[rot][2]

quaternionFromRotationX(rot) == Quat(CosHalf(rot), SinHalf(rot), R(0), R(0))

quaternionFromRotationY(rot) == Quat(CosHalf(rot), R(0), SinHalf(rot), R(0))

quaternionFromRotationZ(rot) == Quat(CosHalf(rot), R(0), R(0), SinHalf(rot))

\* the factors in the order X, Y, Z
quaternionFromYawPitchRollXYZ(yaw, pitch, roll) ==
    operatorMul(operatorMul(quaternionFromRotationX(pitch), quaternionFromRotationY(yaw)),
                quaternionFromRotationZ(roll))

quaternionFromYawPitchRoll(yaw, pitch, roll) ==
    operatorMul(operatorMul(quaternionFromRotationY(yaw), quaternionFromRotationX(pitch)),
                quaternionFromRotationZ(roll))

-----------------------------------------------------------------------------
(* Inputs of the quaternion callers                                        *)

MaxQ == 1
MaxV == 1

IntQuats == {Quat(R(w), R(x), R(y), R(z)) : w \in -1..MaxQ, x \in -1..MaxQ,
                                            y \in -1..MaxQ, z \in -1..MaxQ}

Halves == {<<-1, 2>>, <<1, 2>>}

\* The sixteen unit quaternions (+-1 +-i +-j +-k)/2 and some rational rotations
FracQuats ==
    {Quat(w, x, y, z) : w \in Halves, x \in Halves, y \in Halves, z \in Halves}
    \cup {Quat(<<3, 5>>, <<4, 5>>, R(0), R(0)), Quat(<<3, 5>>, R(0), <<-4, 5>>, R(0)),
          Quat(<<-4, 5>>, R(0), R(0), <<3, 5>>), Quat(<<2, 3>>, <<2, 3>>, <<1, 3>>, R(0)),
          Quat(R(0), <<1, 3>>, <<-2, 3>>, <<2, 3>>), Quat(<<1, 2>>, <<1, 2>>, R(0), R(0))}

\* Operands of a composed rotation: integer, half-integer and rational ones
SomeQuats ==
    {Quat(R(1), R(0), R(0), R(0)), Quat(R(0), R(0), R(1), R(0)), Quat(R(1), R(-1), R(0), R(1)),
     Quat(R(0), R(1), R(1), R(-1)), Quat(<<1, 2>>, <<-1, 2>>, <<1, 2>>, <<1, 2>>),
     Quat(<<3, 5>>, R(0), <<-4, 5>>, R(0)), Quat(<<2, 3>>, <<2, 3>>, <<1, 3>>, R(0)),
     Quat(<<1, 2>>, R(2), R(0), <<-1, 3>>)}

Vecs == {Vec3(R(a), R(b), R(c)) : a \in -1..MaxV, b \in -1..MaxV, c \in -1..MaxV}

\* The vectors of a composed rotation
UnitCubeVecs == {Vec3(R(a), R(b), R(c)) : a \in -1..1, b \in -1..1, c \in -1..1}


ZeroM44 == [i \in 0..3 |-> [k \in 0..3 |-> R(0)]]

None == <<>>

-----------------------------------------------------------------------------
(* The callers.  The library is a set of pure functions; a caller passes   *)
(* arguments (pc = "called") and the function returns (pc = "returned").   *)
(* pmProj is the out-parameter of makeProjection, frustum the arguments    *)
(* it was last written from.                                               *)

Init ==
    /\ pc = "idle"
    /\ call = "none"
    /\ args = None
    /\ ret = None
    /\ pmProj = ZeroM44
    /\ frustum = None

Invoke(f, a) ==
    /\ pc = "idle"
    /\ pc' = "called"
    /\ call' = f
    /\ args' = a
    /\ UNCHANGED <<ret, pmProj, frustum>>

Return(f, r) ==
    /\ pc = "called"
    /\ call = f
    /\ pc' = "returned"
    /\ ret' = r
    /\ UNCHANGED <<call, args, pmProj, frustum>>

\* q1 * q2
CallMul ==
    /\ pc = "idle"
    /\ \E a \in IntQuats, b \in IntQuats : Invoke("mul", [lhs |-> a, rhs |-> b])

ReturnMul == Return("mul", operatorMul(args.lhs, args.rhs))

\* v rotated by the product a*b, and by b and then by a
CallCompose ==
    /\ pc = "idle"
    /\ \E a \in IntQuats, b \in SomeQuats, v \in UnitCubeVecs :
        Invoke("compose", [a |-> a, b |-> b, v |-> v])

ReturnCompose ==
    Return("compose",
           [product |-> quaternionRotateVector(operatorMul(args.a, args.b), args.v, FALSE),
            sequence |-> quaternionRotateVector(args.a,
                             quaternionRotateVector(args.b, args.v, FALSE), FALSE)])

\* v rotated by q and the result rotated back
CallRoundTrip ==
    /\ pc = "idle"
    /\ \E q \in IntQuats \cup FracQuats, v \in Vecs :
        Invoke("roundtrip", [q |-> q, v |-> v])

ReturnRoundTrip ==
    Return("roundtrip",
           [forward |-> quaternionRotateVector(args.q, args.v, FALSE),
            back |-> quaternionRotateVector(args.q,
                         quaternionRotateVector(args.q, args.v, FALSE), TRUE)])

Next ==
    \/ CallMul
    \/ ReturnMul
    \/ CallCompose
    \/ ReturnCompose
    \/ CallRoundTrip
    \/ ReturnRoundTrip

Spec == Init /\ [][Next]_vars

-----------------------------------------------------------------------------
(* Quaternion algebra: properties                                          *)

\* The Hamilton product of q1 and q2 in (w, x, y, z) order
Hamilton(q1, q2) ==
    [w |-> FSub(FSub(FSub(FMul(q1.w, q2.w), FMul(q1.x, q2.x)), FMul(q1.y, q2.y)), FMul(q1.z, q2.z)),
     x |-> FSub(FAdd(FAdd(FMul(q1.w, q2.x), FMul(q1.x, q2.w)), FMul(q1.y, q2.z)), FMul(q1.z, q2.y)),
     y |-> FSub(FAdd(FAdd(FMul(q1.w, q2.y), FMul(q1.y, q2.w)), FMul(q1.z, q2.x)), FMul(q1.x, q2.z)),
     z |-> FSub(FAdd(FAdd(FMul(q1.w, q2.z), FMul(q1.z, q2.w)), FMul(q1.x, q2.y)), FMul(q1.y, q2.x))]

\* C1: when operator* returns, its result is the Hamilton product of the two
\* operands in (w, x, y, z) order, and both operands are as they were passed.
C1_HamiltonProduct ==
    [][(pc = "called" /\ call = "mul" /\ pc' = "returned")
          => (args' = args /\ ret' = Hamilton(args.lhs, args.rhs))]_vars

\* w^2 + x^2 + y^2 + z^2
NormSq(q) == FAdd(FAdd(FAdd(FMul(q.w, q.w), FMul(q.x, q.x)), FMul(q.y, q.y)), FMul(q.z, q.z))

\* q is a unit quaternion
IsUnit(q) == NormSq(q) = R(1)

AllNonZero(q) == q.w # R(0) /\ q.x # R(0) /\ q.y # R(0) /\ q.z # R(0)

\* operator* has returned the product of two quaternions that do not commute
C1_Witness ==
    /\ pc = "returned"
    /\ call = "mul"
    /\ AllNonZero(args.lhs)
    /\ AllNonZero(args.rhs)
    /\ ret = Hamilton(args.lhs, args.rhs)
    /\ ret # Hamilton(args.rhs, args.lhs)

\* C2: rotating v by the product a*b gives the vector that rotating v by b
\* and then by a gives (forward direction).
C2_ProductAppliesRightFirst ==
    (pc = "returned" /\ call = "compose")
        => \A i \in 0..2 : FEq(ret.product[i], ret.sequence[i])

\* a composed rotation where the order of the factors shows: rotating by a
\* and then by b gives another vector
C2_Witness ==
    /\ pc = "returned"
    /\ call = "compose"
    /\ ret.product = ret.sequence
    /\ ret.product # args.v
    /\ ret.product # quaternionRotateVector(args.b,
                          quaternionRotateVector(args.a, args.v, FALSE), FALSE)

\* C3: for a unit quaternion q, rotating v forward by q and the result in
\* reverse by q gives v again.
C3_RoundTrip ==
    (pc = "returned" /\ call = "roundtrip" /\ IsUnit(args.q))
        => \A i \in 0..2 : FEq(ret.back[i], args.v[i])

\* a unit quaternion with fractional components has moved v and brought it back
C3_Witness ==
    /\ pc = "returned"
    /\ call = "roundtrip"
    /\ IsUnit(args.q)
    /\ args.q.w[2] # 1
    /\ ret.forward # args.v
    /\ ret.back = args.v

-----------------------------------------------------------------------------
(* Construction from angles: callers and properties                        *)

CallRotationAxis ==
    /\ pc = "idle"
    /\ \E axis \in {"X", "Y", "Z"}, rot \in Angles :
        Invoke("rotation" \o axis, [rot |-> rot])

ReturnRotationX == Return("rotationX", quaternionFromRotationX(args.rot))

ReturnRotationY == Return("rotationY", quaternionFromRotationY(args.rot))

ReturnRotationZ == Return("rotationZ", quaternionFromRotationZ(args.rot))

CallYawPitchRoll ==
    /\ pc = "idle"
    /\ \E yaw \in Angles, pitch \in Angles, roll \in Angles :
        Invoke("ypr", [yaw |-> yaw, pitch |-> pitch, roll |-> roll])

ReturnYawPitchRoll ==
    Return("ypr", quaternionFromYawPitchRoll(args.yaw, args.pitch, args.roll))

NextYPR ==
    \/ CallRotationAxis
    \/ ReturnRotationX
    \/ ReturnRotationY
    \/ ReturnRotationZ
    \/ CallYawPitchRoll
    \/ ReturnYawPitchRoll

SpecYPR == Init /\ [][NextYPR]_vars

\* The rotation about one axis, by name
AxisRotation(axis, yaw, pitch, roll) ==
    IF axis = "Y" THEN quaternionFromRotationY(yaw)
    ELSE IF axis = "X" THEN quaternionFromRotationX(pitch)
    ELSE quaternionFromRotationZ(roll)

\* The Hamilton product of the three factors in the order o
OrderedProduct(o, yaw, pitch, roll) ==
    Hamilton(Hamilton(AxisRotation(o[1], yaw, pitch, roll), AxisRotation(o[2], yaw, pitch, roll)),
             AxisRotation(o[3], yaw, pitch, roll))

OtherOrders ==
    {<<"X", "Y", "Z">>, <<"X", "Z", "Y">>, <<"Y", "Z", "X">>, <<"Z", "X", "Y">>, <<"Z", "Y", "X">>}

BasisVecs == {Vec3(R(1), R(0), R(0)), Vec3(R(0), R(1), R(0)), Vec3(R(0), R(0), R(1))}

\* C5: quaternionFromYawPitchRoll returns Ry(yaw) * Rx(pitch) * Rz(roll):
\* its components are those of that Hamilton product, it turns a vector
\* about Z by roll, then about X by pitch, then about Y by yaw, and each
\* other order of the three factors differs from it for some angles.
C5_YawPitchRollOrder ==
    (pc = "returned" /\ call = "ypr") =>
        LET cy == CosHalf(args.yaw)
            sy == SinHalf(args.yaw)
            cp == CosHalf(args.pitch)
            sp == SinHalf(args.pitch)
            cr == CosHalf(args.roll)
            sr == SinHalf(args.roll)
        IN  /\ ret = OrderedProduct(<<"Y", "X", "Z">>, args.yaw, args.pitch, args.roll)
            /\ ret.w = FAdd(FMul(FMul(cy, cp), cr), FMul(FMul(sy, sp), sr))
            /\ ret.x = FAdd(FMul(FMul(cy, sp), cr), FMul(FMul(sy, cp), sr))
            /\ ret.y = FSub(FMul(FMul(sy, cp), cr), FMul(FMul(cy, sp), sr))
            /\ ret.z = FSub(FMul(FMul(cy, cp), sr), FMul(FMul(sy, sp), cr))
            /\ \A v \in BasisVecs :
                   quaternionRotateVector(ret, v, FALSE) =
                       quaternionRotateVector(quaternionFromRotationY(args.yaw),
                           quaternionRotateVector(quaternionFromRotationX(args.pitch),
                               quaternionRotateVector(quaternionFromRotationZ(args.roll), v, FALSE),
                               FALSE), FALSE)
            /\ \A o \in OtherOrders :
                   \E y \in Angles, p \in Angles, r \in Angles :
                       OrderedProduct(o, y, p, r) # quaternionFromYawPitchRoll(y, p, r)

\* a yaw-pitch-roll quaternion of three proper rotations, which each other
\* order of the factors would have given another value
C5_Witness ==
    /\ pc = "returned"
    /\ call = "ypr"
    /\ SinHalf(args.yaw) # R(0) /\ CosHalf(args.yaw) # R(0)
    /\ SinHalf(args.pitch) # R(0) /\ CosHalf(args.pitch) # R(0)
    /\ SinHalf(args.roll) # R(0) /\ CosHalf(args.roll) # R(0)
    /\ IsUnit(ret)
    /\ \A o \in OtherOrders : ret # OrderedProduct(o, args.yaw, args.pitch, args.roll)

-----------------------------------------------------------------------------
(* Matrices.  A 3x4 matrix is a function on 0..2 of functions on 0..3, as  *)
(* HmdMatrix34_t::m; column 3 is the translation.                          *)

MaxDiag == 1
MaxT == 1

Translations == {Vec3(R(t), R(t + 1), R(t + 2)) : t \in 0..MaxT}

OffDiagonal == {<<i, j>> \in (0..2) \X (0..2) : i # j}

\* Matrices with small integer entries: the signed permutation matrices
\* (rotations and reflections) and many that are no rotation at all
RotMats ==
    {[i \in 0..2 |-> [j \in 0..3 |->
          IF j = 3 THEN t[i] ELSE IF i = j THEN R(d[i]) ELSE R(o[<<i, j>>])]] :
        d \in [0..2 -> -1..MaxDiag], o \in [OffDiagonal -> -1..1], t \in Translations}

\* Diagonal matrices with fractional entries, some of them close to zero
DiagValues == {Norm(k, 2) : k \in -3..3} \cup {<<1, 100>>, <<-1, 100>>}

DiagMats ==
    {[i \in 0..2 |-> [j \in 0..3 |-> IF i = j THEN d[i] ELSE R(0)]] :
        d \in [0..2 -> DiagValues]}

-----------------------------------------------------------------------------
(* quaternionFromRotationMatrix.  The function takes a square root and     *)
(* then only multiplies and divides, so each of its values from s on is    *)
(* held as its signed square sgn(x) * x^2: Sqrt(r) is r itself, a plain    *)
(* number r enters as Sq(r), products and quotients of signed squares are  *)
(* the signed squares of the products and quotients, and order and sign    *)
(* are kept.                                                               *)

FAbs(x) == <<Abs(x[1]), x[2]>>

Sq(r) == FMul(r, FAbs(r))

\* sqrt(r), as a signed square; NaN for r < 0
Sqrt(r) == IF IsNaN(r) \/ FLess(r, R(0)) THEN NaN ELSE r

\* line 140
Trace(a) == FAdd(FAdd(a[0][0], a[1][1]), a[2][2])

\* a branch test that compares a[0][0] with a[1][1] only
BranchFirstTestOnly(a) ==
    IF FGreater(Trace(a), R(0)) THEN 0
    ELSE IF FGreater(a[0][0], a[1][1]) THEN 1
    ELSE IF FGreater(a[1][1], a[2][2]) THEN 2
    ELSE 3

\* The branch taken: 0 for trace > 0 (line 141), else 1, 2, 3 for the
\* tests of lines 148, 154 and the final else of line 160
Branch(a) ==
    IF FGreater(Trace(a), R(0)) THEN 0
    ELSE IF FGreater(a[0][0], a[1][1]) /\ FGreater(a[0][0], a[2][2]) THEN 1
    ELSE IF FGreater(a[1][1], a[2][2]) THEN 2
    ELSE 3

\* The argument of sqrt in the branch taken (lines 142, 149, 155, 161)
SqrtArg(a) ==
    LET b == Branch(a)
    IN  IF b = 0 THEN FAdd(Trace(a), R(1))
        ELSE IF b = 1 THEN FSub(FSub(FAdd(R(1), a[0][0]), a[1][1]), a[2][2])
        ELSE IF b = 2 THEN FSub(FSub(FAdd(R(1), a[1][1]), a[0][0]), a[2][2])
        ELSE FSub(FSub(FAdd(R(1), a[2][2]), a[0][0]), a[1][1])

\* s of the branch taken, as a signed square
DivisorS(a) ==
    IF Branch(a) = 0 THEN FDiv(Sq(<<1, 2>>), Sqrt(SqrtArg(a)))
    ELSE FMul(Sq(R(2)), Sqrt(SqrtArg(a)))

\* q before the sign flip of lines 168-170, components as signed squares
Extracted(a) ==
    LET b == Branch(a)
        s == DivisorS(a)
    IN  IF b = 0 THEN
            Quat(FDiv(Sq(<<1, 4>>), s),
                 FMul(Sq(FSub(a[1][2], a[2][1])), s),
                 FMul(Sq(FSub(a[2][0], a[0][2])), s),
                 FMul(Sq(FSub(a[0][1], a[1][0])), s))
        ELSE IF b = 1 THEN
            Quat(FDiv(Sq(FSub(a[1][2], a[2][1])), s),
                 FMul(Sq(<<1, 4>>), s),
                 FDiv(Sq(FAdd(a[1][0], a[0][1])), s),
                 FDiv(Sq(FAdd(a[2][0], a[0][2])), s))
        ELSE IF b = 2 THEN
            Quat(FDiv(Sq(FSub(a[2][0], a[0][2])), s),
                 FDiv(Sq(FAdd(a[1][0], a[0][1])), s),
                 FMul(Sq(<<1, 4>>), s),
                 FDiv(Sq(FAdd(a[2][1], a[1][2])), s))
        ELSE
            Quat(FDiv(Sq(FSub(a[0][1], a[1][0])), s),
                 FDiv(Sq(FAdd(a[2][0], a[0][2])), s),
                 FDiv(Sq(FAdd(a[2][1], a[1][2])), s),
                 FMul(Sq(<<1, 4>>), s))

\* the extraction without the sign flip
quaternionFromRotationMatrixNoFlip(mat) == Extracted(mat)

\* quaternionFromRotationMatrix(mat), components as signed squares
quaternionFromRotationMatrix(mat) ==
    LET q == Extracted(mat)
    IN  Quat(q.w, FNeg(q.x), FNeg(q.y), FNeg(q.z))

CallFromRotationMatrix ==
    /\ pc = "idle"
    /\ \E mat \in RotMats \cup DiagMats : Invoke("fromMatrix", [mat |-> mat])

\* The return, with the branch taken, its square-root argument and its s
ReturnFromRotationMatrix ==
    Return("fromMatrix",
           [q |-> quaternionFromRotationMatrix(args.mat),
            branch |-> Branch(args.mat),
            sqrtArg |-> SqrtArg(args.mat),
            s |-> DivisorS(args.mat)])

NextRotMat ==
    \/ CallFromRotationMatrix
    \/ ReturnFromRotationMatrix

SpecRotMat == Init /\ [][NextRotMat]_vars

\* The 3x3 block is the rotation by 90 degrees about Z
IsRotZ90(mat) ==
    /\ mat[0][0] = R(0) /\ mat[0][1] = R(-1) /\ mat[0][2] = R(0)
    /\ mat[1][0] = R(1) /\ mat[1][1] = R(0)  /\ mat[1][2] = R(0)
    /\ mat[2][0] = R(0) /\ mat[2][1] = R(0)  /\ mat[2][2] = R(1)

\* C4 as claimed: the matrix of 90 degrees about Z gives w > 0 with
\* w^2 = 1/2, x = y = 0 and z < 0 with z^2 = 1/2.
C4_RotZ90NegativeZ ==
    (pc = "returned" /\ call = "fromMatrix" /\ IsRotZ90(args.mat))
        => (ret.q.w = <<1, 2>> /\ ret.q.x = R(0) /\ ret.q.y = R(0) /\ ret.q.z = <<-1, 2>>)

\* C4 as amended: the matrix of 90 degrees about Z, whatever its translation
\* column, gives w > 0 with w^2 = 1/2, x = y = 0 and z > 0 with z^2 = 1/2.
C4_RotZ90PositiveZ ==
    (pc = "returned" /\ call = "fromMatrix" /\ IsRotZ90(args.mat))
        => (ret.q.w = <<1, 2>> /\ ret.q.x = R(0) /\ ret.q.y = R(0) /\ ret.q.z = <<1, 2>>)

\* the matrix of 90 degrees about Z with a translation has been converted,
\* in the trace > 0 branch
C4_Witness ==
    /\ pc = "returned"
    /\ call = "fromMatrix"
    /\ IsRotZ90(args.mat)
    /\ args.mat[0][3] # R(0)
    /\ ret.branch = 0
    /\ ret.q.z = <<1, 2>>

FGeq(x, y) == FGreater(x, y) \/ FEq(x, y)

-----------------------------------------------------------------------------
(* transposeMul33 and matMul44                                             *)

MaxEntry == 1
MaxB == 1

\* 3x4 matrices: every 3x3 block of small entries, with a translation
Mats34 ==
    {[i \in 0..2 |-> [j \in 0..3 |-> IF j = 3 THEN t[i] ELSE R(e[<<i, j>>])]] :
        e \in [(0..2) \X (0..2) -> 0..MaxEntry], t \in Translations}

Vec4(a, b, c, d) ==
    [i \in 0..3 |-> IF i = 0 THEN a ELSE IF i = 1 THEN b ELSE IF i = 2 THEN c ELSE d]

Vecs4 == {Vec4(R(a), R(b), R(c), R(d)) :
             a \in -1..MaxEntry, b \in -1..MaxEntry, c \in -1..MaxEntry, d \in -1..MaxEntry}

\* 4x4 matrices: sixteen entries all different, and a single non-zero entry
Mats44 ==
    {[i \in 0..3 |-> [k \in 0..3 |-> R(base + 4 * i + k)]] : base \in 0..MaxB}
    \cup {[i \in 0..3 |-> [k \in 0..3 |-> IF i = r /\ k = c THEN R(x) ELSE R(0)]] :
             r \in 0..3, c \in 0..3, x \in 1..MaxB}

\* a transpose that leaves the translation column zero
transposeMul33NoTranslation(a) ==
    [i \in 0..2 |-> [k \in 0..3 |-> IF k < 3 THEN a[k][i] ELSE R(0)]]

\* lines 290-294 fill the 3x3 block, lines 295-297 column 3
transposeMul33(a) ==
    [i \in 0..2 |-> [k \in 0..3 |-> IF k < 3 THEN a[k][i] ELSE a[i][3]]]

\* result.v[i] after n rounds of the inner loop of matMul44, with b.m[k][i]
RECURSIVE ColumnAccumulate44(_, _, _, _)
ColumnAccumulate44(a, b, i, n) ==
    IF n = 0 THEN R(0)
    ELSE FAdd(ColumnAccumulate44(a, b, i, n - 1), FMul(a[n - 1], b[n - 1][i]))

\* result.v[i] after n rounds of the inner loop of matMul44 (lines 305-307)
RECURSIVE Accumulate44(_, _, _, _)
Accumulate44(a, b, i, n) ==
    IF n = 0 THEN R(0)
    ELSE FAdd(Accumulate44(a, b, i, n - 1), FMul(a[n - 1], b[i][n - 1]))

\* matMul44 with the indices of b exchanged
matMul44ByColumn(a, b) == [i \in 0..3 |-> ColumnAccumulate44(a, b, i, 4)]

matMul44(a, b) == [i \in 0..3 |-> Accumulate44(a, b, i, 4)]

CallTranspose ==
    /\ pc = "idle"
    /\ \E a \in Mats34 : Invoke("transposeMul33", [a |-> a])

\* The caller transposes the result again.
ReturnTranspose ==
    Return("transposeMul33",
           [once |-> transposeMul33(args.a),
            twice |-> transposeMul33(transposeMul33(args.a))])

CallMatMul44 ==
    /\ pc = "idle"
    /\ \E a \in Vecs4, b \in Mats44 : Invoke("matMul44", [a |-> a, b |-> b])

ReturnMatMul44 == Return("matMul44", matMul44(args.a, args.b))

NextMat ==
    \/ CallTranspose
    \/ ReturnTranspose
    \/ CallMatMul44
    \/ ReturnMatMul44

SpecMat == Init /\ [][NextMat]_vars

\* C6: when transposeMul33 returns, the transpose of its result is the
\* input matrix in all twelve entries, the translation column of each
\* transpose is that of the input, the 3x3 block of the first is the
\* transposed block, and the input matrix is as it was passed.
C6_DoubleTranspose ==
    [][(pc = "called" /\ call = "transposeMul33" /\ pc' = "returned") =>
          /\ args' = args
          /\ ret'.twice = args.a
          /\ \A i \in 0..2 : /\ ret'.once[i][3] = args.a[i][3]
                             /\ ret'.twice[i][3] = args.a[i][3]
                             /\ \A k \in 0..2 : ret'.once[i][k] = args.a[k][i]]_vars

\* a matrix with an asymmetric block and a non-zero translation has been
\* transposed twice
C6_Witness ==
    /\ pc = "returned"
    /\ call = "transposeMul33"
    /\ args.a[0][1] # args.a[1][0]
    /\ args.a[0][3] # R(0)
    /\ args.a[0][3] # args.a[2][3]
    /\ ret.once # args.a
    /\ ret.twice = args.a

\* C7: component i of matMul44(a, b) is a[0] b[i][0] + a[1] b[i][1] +
\* a[2] b[i][2] + a[3] b[i][3], the dot product of a with row i of b.
C7_RowDot ==
    (pc = "returned" /\ call = "matMul44") =>
        \A i \in 0..3 :
            ret[i] = FAdd(FAdd(FAdd(FMul(args.a[0], args.b[i][0]), FMul(args.a[1], args.b[i][1])),
                               FMul(args.a[2], args.b[i][2])),
                          FMul(args.a[3], args.b[i][3]))

\* a product whose every component differs from the dot product of a with
\* the column of b
C7_Witness ==
    /\ pc = "returned"
    /\ call = "matMul44"
    /\ \A i \in 0..3 :
          ret[i] # FAdd(FAdd(FAdd(FMul(args.a[0], args.b[0][i]), FMul(args.a[1], args.b[1][i])),
                             FMul(args.a[2], args.b[2][i])),
                        FMul(args.a[3], args.b[3][i]))

-----------------------------------------------------------------------------
(* makeProjection and project                                              *)

MaxExt == 1
MaxNear == 2
MaxFar == 3

Extents == {R(e) : e \in -MaxExt..MaxExt}
Nears == {R(n) : n \in 1..MaxNear}
Fars == {R(f) : f \in 1..MaxFar}

Vec2(a, b) == [i \in 0..1 |-> IF i = 0 THEN a ELSE b]

\* makeProjection with sx = fRight - fLeft
makeProjectionSxDifference(fLeft, fRight, fTop, fBottom, zNear, zFar) ==
    LET idx == FDiv(R(1), FSub(fRight, fLeft))
        idy == FDiv(R(1), FSub(fBottom, fTop))
        idz == FDiv(R(1), FSub(zNear, zFar))
        sx == FSub(fRight, fLeft)
        sy == FAdd(fBottom, fTop)
    IN  [i \in 0..3 |->
            IF i = 0 THEN Vec4(FMul(R(2), idx), R(0), FMul(sx, idx), R(0))
            ELSE IF i = 1 THEN Vec4(R(0), FMul(R(2), idy), FMul(sy, idy), R(0))
            ELSE IF i = 2 THEN Vec4(R(0), R(0), FMul(FAdd(zFar, zNear), idz),
                                    FMul(FMul(FMul(R(2), zFar), zNear), idz))
            ELSE Vec4(R(0), R(0), R(-1), R(0))]

\* The matrix makeProjection writes to pmProj (lines 314-324)
makeProjection(fLeft, fRight, fTop, fBottom, zNear, zFar) ==
    LET idx == FDiv(R(1), FSub(fRight, fLeft))
        idy == FDiv(R(1), FSub(fBottom, fTop))
        idz == FDiv(R(1), FSub(zNear, zFar))
        sx == FAdd(fRight, fLeft)
        sy == FAdd(fBottom, fTop)
    IN  [i \in 0..3 |->
            IF i = 0 THEN Vec4(FMul(R(2), idx), R(0), FMul(sx, idx), R(0))
            ELSE IF i = 1 THEN Vec4(R(0), FMul(R(2), idy), FMul(sy, idy), R(0))
            ELSE IF i = 2 THEN Vec4(R(0), R(0), FMul(FAdd(zFar, zNear), idz),
                                    FMul(FMul(FMul(R(2), zFar), zNear), idz))
            ELSE Vec4(R(0), R(0), R(-1), R(0))]

\* makeProjection(const HmdRect2_t &eye, zNear, zFar, pmProj)
makeProjectionRect(eye, zNear, zFar) ==
    makeProjection(eye.vTopLeft[0], eye.vBottomRight[0],
                   eye.vTopLeft[1], eye.vBottomRight[1], zNear, zFar)

\* project without the perspective divide
projectNoDivide(proj_mat, p) ==
    LET ndcP == matMul44(p, proj_mat)
    IN  Vec3(ndcP[0], ndcP[1], ndcP[2])

project(proj_mat, p) ==
    LET ndcP == matMul44(p, proj_mat)
        pd == FDiv(R(1), ndcP[3])
    IN  Vec3(FMul(ndcP[0], pd), FMul(ndcP[1], pd), FMul(ndcP[2], pd))

CallMakeProjection ==
    /\ pc = "idle"
    /\ \E l \in Extents, r \in Extents, t \in Extents, b \in Extents, n \in Nears, f \in Fars :
        Invoke("makeProjection",
               [fLeft |-> l, fRight |-> r, fTop |-> t, fBottom |-> b, zNear |-> n, zFar |-> f])

ReturnMakeProjection ==
    /\ pc = "called"
    /\ call = "makeProjection"
    /\ pc' = "returned"
    /\ pmProj' = makeProjection(args.fLeft, args.fRight, args.fTop, args.fBottom,
                                args.zNear, args.zFar)
    /\ frustum' = args
    /\ UNCHANGED <<call, args, ret>>

CallMakeProjectionRect ==
    /\ pc = "idle"
    /\ \E l \in Extents, r \in Extents, t \in Extents, b \in Extents, n \in Nears, f \in Fars :
        Invoke("makeProjectionRect",
               [eye |-> [vTopLeft |-> Vec2(l, t), vBottomRight |-> Vec2(r, b)],
                zNear |-> n, zFar |-> f])

ReturnMakeProjectionRect ==
    /\ pc = "called"
    /\ call = "makeProjectionRect"
    /\ pc' = "returned"
    /\ pmProj' = makeProjectionRect(args.eye, args.zNear, args.zFar)
    /\ frustum' = [fLeft |-> args.eye.vTopLeft[0], fRight |-> args.eye.vBottomRight[0],
                   fTop |-> args.eye.vTopLeft[1], fBottom |-> args.eye.vBottomRight[1],
                   zNear |-> args.zNear, zFar |-> args.zFar]
    /\ UNCHANGED <<call, args, ret>>

\* The corners of the frustum at depth zNear, its extents read as lengths
\* on the near plane (scale 1) or as lengths at unit depth (scale zNear)
CornerPoints(fr) ==
    {Vec4(FMul(ex, sc), FMul(ey, sc), FNeg(fr.zNear), R(1)) :
        ex \in {fr.fLeft, fr.fRight}, ey \in {fr.fTop, fr.fBottom}, sc \in {R(1), fr.zNear}}

\* A caller projects a corner with the matrix just made.
CallProject ==
    /\ pc = "returned"
    /\ call \in {"makeProjection", "makeProjectionRect"}
    /\ \E p \in CornerPoints(frustum) :
        /\ pc' = "called"
        /\ call' = "project"
        /\ args' = [proj_mat |-> pmProj, p |-> p]
        /\ UNCHANGED <<ret, pmProj, frustum>>

ReturnProject == Return("project", project(args.proj_mat, args.p))

NextProj ==
    \/ CallMakeProjection
    \/ ReturnMakeProjection
    \/ CallMakeProjectionRect
    \/ ReturnMakeProjectionRect
    \/ CallProject
    \/ ReturnProject

SpecProj == Init /\ [][NextProj]_vars

Made == pc = "returned" /\ call \in {"makeProjection", "makeProjectionRect"}

Symmetric == frustum.fLeft = FNeg(frustum.fRight) /\ frustum.fTop = FNeg(frustum.fBottom)

\* C8 as claimed: for all symmetric bounds (left = -right, top = -bottom)
\* the entries [0][2] and [1][2] of the matrix written are zero.
C8_SymmetricAlways ==
    (Made /\ Symmetric) => (FEq(pmProj[0][2], R(0)) /\ FEq(pmProj[1][2], R(0)))

\* C8 as amended: for symmetric bounds with left # right and top # bottom,
\* the reciprocals 1/(right - left) and 1/(bottom - top) being finite, the
\* entries [0][2] and [1][2] of the matrix written are zero.
C8_SymmetricNonDegenerate ==
    (/\ Made
     /\ Symmetric
     /\ frustum.fLeft # frustum.fRight
     /\ frustum.fTop # frustum.fBottom
     /\ IsFinite(pmProj[0][0])
     /\ IsFinite(pmProj[1][1]))
        => (FEq(pmProj[0][2], R(0)) /\ FEq(pmProj[1][2], R(0)))

\* a symmetric frustum of non-zero width and height has been written
C8_Witness ==
    /\ Made
    /\ Symmetric
    /\ frustum.fRight # R(0)
    /\ frustum.fBottom # R(0)
    /\ pmProj[0][0] = FDiv(R(1), frustum.fRight)
    /\ pmProj[0][2] = R(0)
    /\ pmProj[1][2] = R(0)

Projected == pc = "returned" /\ call = "project"

ProperFrustum ==
    /\ frustum.fLeft # frustum.fRight
    /\ frustum.fTop # frustum.fBottom
    /\ frustum.zNear # frustum.zFar
    /\ FGreater(frustum.zNear, R(0))

\* C9 as claimed: in a proper frustum the point (left, top, -near, 1)
\* projects to x = -1, y = -1.
C9_NearPlaneExtents ==
    (/\ Projected
     /\ ProperFrustum
     /\ args.p = Vec4(frustum.fLeft, frustum.fTop, FNeg(frustum.zNear), R(1)))
        => (FEq(ret[0], R(-1)) /\ FEq(ret[1], R(-1)))

\* C9 as amended: in a proper frustum the point
\* (left * near, top * near, -near, 1) projects to x = -1, y = -1: left and
\* top are the extents at unit depth.
C9_UnitDepthExtents ==
    (/\ Projected
     /\ ProperFrustum
     /\ args.p = Vec4(FMul(frustum.fLeft, frustum.zNear), FMul(frustum.fTop, frustum.zNear),
                      FNeg(frustum.zNear), R(1)))
        => (FEq(ret[0], R(-1)) /\ FEq(ret[1], R(-1)))

\* with near = 2 and an off-axis frustum, the corner (2 left, 2 top, -2, 1)
\* has been projected to (-1, -1)
C9_Witness ==
    /\ Projected
    /\ ProperFrustum
    /\ frustum.zNear = R(2)
    /\ frustum.fLeft # R(0)
    /\ frustum.fTop # R(0)
    /\ frustum.fLeft # FNeg(frustum.fRight)
    /\ args.p = Vec4(FMul(frustum.fLeft, R(2)), FMul(frustum.fTop, R(2)), R(-2), R(1))
    /\ ret[0] = R(-1)
    /\ ret[1] = R(-1)

====
